---- MODULE Spec2Model ----
(***************************************************************************)
(* Seat hold / booking concurrency engine of the booking service           *)
(* (services/booking/main.py): the Redis seat locks, the persisted seat    *)
(* and booking rows, the request handlers hold_seat, hold_multiple_seats,  *)
(* confirm_booking, release_seats, cancel_booking, the background task     *)
(* cleanup_expired_holds, and the WebSocket hub (ConnectionManager and     *)
(* websocket_endpoint) that pushes seat updates to the observers.          *)
(*                                                                         *)
(* Every handler is split at its I/O round trips (one Redis command, one   *)
(* database commit, one broadcast): these are the points at which another  *)
(* worker, the background task or the Redis key expiry can run.  Rows a    *)
(* handler changes stay in its session until its commit step writes them:  *)
(* the ORM session keeps the column values it loaded, and its commit       *)
(* updates the columns whose new value differs from the loaded one.        *)
(* Each principal has at most one request in flight.  The specifications   *)
(* differ in the requests the principals issue and in whether one worker   *)
(* (one request at a time) or several workers serve them.                  *)
(*                                                                         *)
(* Time is counted in ticks of TickSeconds seconds, and every stored time  *)
(* is kept as its distance from the present.                               *)
(***************************************************************************)
EXTENDS Integers, Sequences, FiniteSets, TLC

\* ---------------------------------------------------------------- bounds
MaxReq == 2
MaxBookings == 2
TicksPerTtl == 1

\* ------------------------------------------------------ program constants
LOCK_TTL_SECONDS == 300
HOLD_MINUTES == 5
MAX_SEATS_PER_HOLD == 10
TTL_MISSING == -2
NoUser == 0
\* Seat.hold_expiry is NULL
None == -2
\* Seat.hold_expiry < now
Past == -1

TickSeconds == LOCK_TTL_SECONDS \div TicksPerTtl
LockTtlTicks == LOCK_TTL_SECONDS \div TickSeconds
HoldTicks == (HOLD_MINUTES * 60) \div TickSeconds

Users == {1, 2}
Seats == {1, 2}
\* the seat the single-seat workloads contend for
TheSeat == CHOOSE s \in Seats : \A x \in Seats : s <= x
MissingSeat == 3
\* a seat row of OtherEvent; no request of the workloads asks for it under its
\* own event, so its status never changes
ForeignSeat == 4
SeatRows == Seats \cup {ForeignSeat}
TheEvent == 1
OtherEvent == 2
MissingEvent == 3
\* the Event rows
Events == {TheEvent, OtherEvent}
\* the WebSocket connections
Observers == {1, 2, 3}
\* Seat.event_id: the seats the requests contend for belong to TheEvent
SeatEvent(s) == IF s = ForeignSeat THEN OtherEvent ELSE TheEvent

VARIABLES
    seat_status,    \* Seat.status of every seat row, as committed
    hold_expiry,    \* Seat.hold_expiry of every seat row, as committed, counted
                    \* from the present: hold_expiry - utcnow() in ticks, Past when
                    \* hold_expiry < utcnow(), None when NULL
    lock_holder,    \* value of the key seat_lock:<id> (NoUser = no such key)
    lock_ttl,       \* remaining TTL of the key seat_lock:<id> in ticks (0 = no key)
    bookings,       \* the committed booking rows, booking id = index
    call,           \* the request in flight of every principal, with its locals
    reaper,         \* the background task cleanup_expired_holds, with its locals
    active_connections, \* manager.active_connections: event id -> set of connections
    ws              \* websocket_endpoint of every connection, with what its
                    \* client has been sent: the snapshot with the pushes applied

storeVars == <<seat_status, hold_expiry, bookings>>
lockVars == <<lock_holder, lock_ttl>>
hubVars == <<active_connections, ws>>
vars == <<seat_status, hold_expiry, lock_holder, lock_ttl, bookings, call, reaper,
          active_connections, ws>>

\* ---------------------------------------------------------------- helpers
Range(q) == {q[k] : k \in 1..Len(q)}

SeqsUpTo(S, n) == UNION {[1..k -> S] : k \in 0..n}

\* the orders in which a query without ORDER BY can return the rows S
Orders(S) == {q \in [1..Cardinality(S) -> S] : Range(q) = S}

NoResult == [code |-> 0, success |-> FALSE, ttl |-> 0]

\* a Seat row the session has not loaded
NotLoaded == [status |-> "", expiry_null |-> FALSE]

Idle ==
    [op |-> "idle", pc |-> "idle", event_id |-> 0, seat_ids |-> <<>>, seats |-> <<>>,
     i |-> 0, acquired_locks |-> <<>>, failed_seats |-> <<>>, done_seats |-> <<>>,
     fresh |-> {}, booking_id |-> 0, loaded |-> [s \in Seats |-> NotLoaded],
     published |-> <<>>, res |-> NoResult, my_held_seats |-> <<>>,
     hold_expires_at |-> None, connection |-> 0, visited |-> {}, rest |-> {},
     used |-> 0, disconnected |-> {}]

ReaperIdle == [pc |-> "sleep", expired_seats |-> <<>>, i |-> 0, dirty |-> {}]

\* no websocket_endpoint runs for the connection
WsClosed == [pc |-> "closed", event_id |-> 0, view |-> [s \in Seats |-> ""]]

Init ==
    /\ seat_status = [s \in Seats |-> "available"]
    /\ hold_expiry = [s \in Seats |-> None]
    /\ lock_holder = [s \in Seats |-> NoUser]
    /\ lock_ttl = [s \in Seats |-> 0]
    /\ bookings = <<>>
    /\ call = [u \in Users |-> Idle]
    /\ reaper = ReaperIdle
    /\ active_connections = [e \in {} |-> {}]
    /\ ws = [o \in Observers |-> WsClosed]

\* ------------------------------------------------------------------ Redis
\* a plain SET, without nx
SetAlways(s) == TRUE

\* redis.set(lock_key, user, nx=True, ex=300): truthy iff the key was absent
SetNxSucceeds(s) == lock_holder[s] = NoUser

\* the already-held test left out: no lock entry passes
OwnsNoLock(u, s) == FALSE

\* the comparison with current_user.id left out: any lock entry passes
OwnsAnyLock(u, s) == s \in Seats /\ lock_holder[s] # NoUser

\* redis.get(lock_key) compared with current_user.id
OwnsLock(u, s) == s \in Seats /\ lock_holder[s] = u

\* redis.ttl(lock_key), in seconds
Ttl(s) == IF lock_holder[s] = NoUser THEN TTL_MISSING ELSE lock_ttl[s] * TickSeconds

\* redis.exists(lock_key)
LockExists(s) == lock_holder[s] # NoUser

SetLock(u, s) ==
    /\ lock_holder' = [lock_holder EXCEPT ![s] = u]
    /\ lock_ttl' = [lock_ttl EXCEPT ![s] = LockTtlTicks]

\* redis.delete left out
KeepLock(s) == UNCHANGED lockVars

\* redis.delete(lock_key)
DeleteLock(s) ==
    /\ lock_holder' = [lock_holder EXCEPT ![s] = NoUser]
    /\ lock_ttl' = [lock_ttl EXCEPT ![s] = 0]

\* a time a request has computed (get_my_holds, line 531) comes one tick closer
Later(c) == IF c.hold_expires_at > Past THEN [c EXCEPT !.hold_expires_at = @ - 1] ELSE c

\* One tick passes: Redis counts every TTL down and drops the keys that reach 0,
\* and every hold_expiry comes one tick closer (or lies in the past).
Tick ==
    /\ \/ \E s \in Seats : lock_ttl[s] > 0
       \/ \E s \in Seats : hold_expiry[s] > Past
    /\ lock_holder' = [s \in Seats |-> IF lock_ttl[s] <= 1 THEN NoUser ELSE lock_holder[s]]
    /\ lock_ttl' = [s \in Seats |-> IF lock_ttl[s] <= 1 THEN 0 ELSE lock_ttl[s] - 1]
    /\ hold_expiry' = [s \in Seats |->
            IF hold_expiry[s] > Past THEN hold_expiry[s] - 1 ELSE hold_expiry[s]]
    /\ call' = [u \in Users |-> Later(call[u])]
    /\ UNCHANGED <<seat_status, bookings, reaper, hubVars>>

\* ------------------------------------------------------------ ORM session
\* db.query(Seat)...: the session of the request loads the rows S; a row it has
\* loaded before is returned as the session holds it
Load(c, S) ==
    [c EXCEPT !.loaded = [s \in Seats |->
        IF s \in S /\ @[s] = NotLoaded
        THEN [status |-> seat_status[s], expiry_null |-> hold_expiry[s] = None]
        ELSE @[s]]]

\* db.commit() after seat.status = st for the rows S: the UPDATE sets the column
\* only where st differs from the value loaded
FlushStatus(c, S, st) ==
    [s \in Seats |-> IF s \in S /\ c.loaded[s].status # st THEN st ELSE seat_status[s]]

\* db.commit() after seat.hold_expiry = ex for the rows S; a new expiry time
\* always differs from the value loaded, None differs unless NULL was loaded
FlushExpiry(c, S, ex) ==
    [s \in Seats |-> IF s \in S /\ (ex # None \/ ~c.loaded[s].expiry_null)
                     THEN ex ELSE hold_expiry[s]]

\* --------------------------------------------------------- request frame
IsIdle(u) == call[u].op = "idle"

At(u, op, pc) == call[u].op = op /\ call[u].pc = pc

Set(u, c) == call' = [call EXCEPT ![u] = c]

Result(code, success, ttl) == [code |-> code, success |-> success, ttl |-> ttl]

\* the handler returns (or raises HTTPException(code)): only the response is
\* kept, with the booking id asked for and the locks the request newly set
Respond(c, code, success, ttl, held, failed, done) ==
    [Idle EXCEPT !.op = c.op, !.pc = "done", !.res = Result(code, success, ttl),
                 !.acquired_locks = held, !.failed_seats = failed, !.done_seats = done,
                 !.booking_id = c.booking_id, !.fresh = c.fresh,
                 !.published = c.published]

Raise(c, code) == Respond(c, code, FALSE, 0, <<>>, <<>>, <<>>)

\* the response has been sent; the principal may issue its next request
Return(u) ==
    /\ call[u].pc = "done"
    /\ Set(u, Idle)
    /\ UNCHANGED <<storeVars, lockVars, reaper, hubVars>>

\* ------------------------------------------------------ ConnectionManager
\* the message {"type": "seat_update", "seat_id": s, "status": st}
SeatUpdate(s, st) == [seat_id |-> s, status |-> st]

\* the connections registered for the event
Registered(e) == IF e \in DOMAIN active_connections THEN active_connections[e] ELSE {}

\* the hub as the pair of its dictionary and the clients behind it
Hub == [ac |-> active_connections, ws |-> ws]

\* line 53 with its except left out: the first failing send_json ends the loop
\* (the connections are visited in increasing order)
ReachedUntilFailure(C, F) == {o \in C : \A x \in C \cap F : o < x}

\* lines 51-55: send_json is tried on every connection C of the event, F is the
\* set of connections on which it raises
ReachedAll(C, F) == C \ F

\* manager.broadcast_to_event(e, m)
broadcast_to_event(H, e, m, F) ==
    IF e \notin DOMAIN H.ac THEN H
    ELSE LET disconnected == H.ac[e] \cap F
             delivered == ReachedAll(H.ac[e], F)
         IN [ac |-> [H.ac EXCEPT ![e] = @ \ disconnected],
             ws |-> [o \in Observers |->
                        IF o \in delivered
                        THEN [H.ws[o] EXCEPT !.view[m.seat_id] = m.status]
                        ELSE H.ws[o]]]

\* the broadcast loop left after its first round
MessagesFirstOnly(q, st) == IF q = <<>> THEN <<>> ELSE <<SeatUpdate(q[1], st)>>

\* one seat_update with the status st for every seat of q, in the order of q
Messages(q, st) == [k \in 1..Len(q) |-> SeatUpdate(q[k], st)]

\* one broadcast_to_event per message of q, in order; fails[k] raise on message k
RECURSIVE BroadcastEach(_, _, _, _)
BroadcastEach(H, e, q, fails) ==
    IF q = <<>> THEN H
    ELSE BroadcastEach(broadcast_to_event(H, e, Head(q), Head(fails)), e, Tail(q), Tail(fails))

\* the request or the background task awaits the broadcasts of the messages q
Publish(e, q) ==
    \E fails \in [1..Len(q) -> SUBSET Registered(e)] :
        LET H == BroadcastEach(Hub, e, q, fails) IN
        /\ active_connections' = H.ac
        /\ ws' = H.ws

\* ----------------------------------------------------- websocket_endpoint
\* lines 589-594: the event is looked up; the socket is closed with 1008 when
\* there is none, else manager.connect awaits websocket.accept()
WsStart(o, e) ==
    /\ ws[o].pc = "closed"
    /\ ws' = [ws EXCEPT ![o] = IF e \in Events
                               THEN [WsClosed EXCEPT !.pc = "accept", !.event_id = e]
                               ELSE [WsClosed EXCEPT !.pc = "rejected", !.event_id = e]]
    /\ UNCHANGED <<storeVars, lockVars, call, reaper, active_connections>>

\* the close frame has gone out; the endpoint has returned
WsRejected(o) ==
    /\ ws[o].pc = "rejected"
    /\ ws' = [ws EXCEPT ![o] = WsClosed]
    /\ UNCHANGED <<storeVars, lockVars, call, reaper, active_connections>>

\* the rows Seat.event_id == e with their status, as the "initial" message
Snapshot(e) == [s \in Seats |-> IF SeatEvent(s) = e THEN seat_status[s] ELSE ""]

\* lines 38-40 and 597-610: the connection is registered, the seats are read
\* and the snapshot is sent
WsAccept(o) ==
    /\ ws[o].pc = "accept"
    /\ LET e == ws[o].event_id IN
       /\ active_connections' =
              [x \in DOMAIN active_connections \cup {e} |-> Registered(x) \cup
                    (IF x = e THEN {o} ELSE {})]
       /\ ws' = [ws EXCEPT ![o] = [@ EXCEPT !.pc = "open", !.view = Snapshot(e)]]
    /\ UNCHANGED <<storeVars, lockVars, call, reaper>>

\* lines 42-46
disconnect(ac, o, e) ==
    IF e \notin DOMAIN ac THEN ac
    ELSE IF ac[e] \ {o} = {}
         THEN [x \in DOMAIN ac \ {e} |-> ac[x]]
         ELSE [ac EXCEPT ![e] = @ \ {o}]

\* lines 616-617: receive_text raises WebSocketDisconnect
WsDisconnect(o) ==
    /\ ws[o].pc = "open"
    /\ active_connections' = disconnect(active_connections, o, ws[o].event_id)
    /\ ws' = [ws EXCEPT ![o] = WsClosed]
    /\ UNCHANGED <<storeVars, lockVars, call, reaper>>

WebSocket(o) ==
    \/ WsRejected(o)
    \/ WsAccept(o)
    \/ WsDisconnect(o)

\* ------------------------------------------------------------- hold_seat
\* datetime.utcnow() + timedelta(minutes=5)
HoldExpiryOnHold == HoldTicks

\* the test of line 197 left out
AnyEvent(s, e) == FALSE

\* line 197: seat.event_id != request.event_id
WrongEvent(s, e) == SeatEvent(s) # e

HoldStart(u, e, s) ==
    /\ IsIdle(u)
    /\ LET c == [Idle EXCEPT !.op = "hold", !.event_id = e, !.seat_ids = <<s>>] IN
       Set(u, IF s \notin SeatRows THEN Raise(c, 404)
              ELSE IF WrongEvent(s, e) THEN Raise(c, 400)
              ELSE Load([c EXCEPT !.pc = "setnx", !.seats = <<s>>], {s}))
    /\ UNCHANGED <<storeVars, lockVars, reaper, hubVars>>

HoldSetNx(u) ==
    /\ At(u, "hold", "setnx")
    /\ LET s == call[u].seats[1] IN
       IF SetNxSucceeds(s)
       THEN /\ SetLock(u, s)
            /\ Set(u, [call[u] EXCEPT !.pc = "commit", !.fresh = {s}])
       ELSE /\ Set(u, [call[u] EXCEPT !.pc = "get"])
            /\ UNCHANGED lockVars
    /\ UNCHANGED <<storeVars, reaper, hubVars>>

HoldGet(u) ==
    /\ At(u, "hold", "get")
    /\ Set(u, IF OwnsLock(u, call[u].seats[1])
              THEN [call[u] EXCEPT !.pc = "ttl"]
              ELSE Respond(call[u], 200, FALSE, 0, <<>>, call[u].seats, <<>>))
    /\ UNCHANGED <<storeVars, lockVars, reaper, hubVars>>

HoldTtl(u) ==
    /\ At(u, "hold", "ttl")
    /\ Set(u, Respond(call[u], 200, TRUE, Ttl(call[u].seats[1]), call[u].seats, <<>>, <<>>))
    /\ UNCHANGED <<storeVars, lockVars, reaper, hubVars>>

HoldCommit(u) ==
    /\ At(u, "hold", "commit")
    /\ LET s == call[u].seats[1] IN
       /\ seat_status' = FlushStatus(call[u], {s}, "held")
       /\ hold_expiry' = FlushExpiry(call[u], {s}, HoldExpiryOnHold)
       /\ Set(u, [call[u] EXCEPT !.pc = "broadcast", !.done_seats = <<s>>])
    /\ UNCHANGED <<bookings, lockVars, reaper, hubVars>>

HoldBroadcast(u) ==
    /\ At(u, "hold", "broadcast")
    /\ LET q == Messages(call[u].done_seats, "held") IN
       /\ Publish(call[u].event_id, q)
       /\ Set(u, Respond([call[u] EXCEPT !.published = q], 200, TRUE, 0, call[u].seats,
                         <<>>, call[u].done_seats))
    /\ UNCHANGED <<storeVars, lockVars, reaper>>

HoldSteps(u) ==
    \/ HoldSetNx(u)
    \/ HoldGet(u)
    \/ HoldTtl(u)
    \/ HoldCommit(u)
    \/ HoldBroadcast(u)

\* ------------------------------- hold_seat, its broadcast send by send
\* broadcast_to_event awaits send_json inside its loop over the set of the
\* event (lines 51-53): while it waits, websocket_endpoint of other connections
\* runs.  The request keeps the connection it waits for, the connections the
\* loop has visited and has still to visit, the size the set had when the loop
\* began (the set iterator raises RuntimeError on its next step when the size
\* of the set has changed), and the connections whose send_json raised.

\* line 49 and the first step of the loop of line 51
HoldBroadcastBegin(u) ==
    /\ At(u, "hold", "broadcast")
    /\ LET c == call[u]
           C == Registered(c.event_id)
       IN IF C = {}
          THEN Set(u, Respond([c EXCEPT !.published = Messages(c.done_seats, "held")],
                              200, TRUE, 0, c.seats, <<>>, c.done_seats))
          ELSE \E o \in C :
                   Set(u, [c EXCEPT !.pc = "sending", !.connection = o, !.visited = {o},
                                    !.rest = C \ {o}, !.used = Cardinality(C),
                                    !.disconnected = {}])
    /\ UNCHANGED <<storeVars, lockVars, reaper, hubVars>>

\* the set iterator would raise: the set has another size than at the start of
\* the loop, or it may be a set that disconnect emptied and deleted (line 46)
\* while connect made a new one for the event (lines 38-39)
SetChangedSize(c) ==
    LET C == Registered(c.event_id) IN
    \/ Cardinality(C) # c.used
    \/ C # c.visited \cup c.rest

\* the connections the loop may still come to: the ones left of those it began
\* with, and any of the connections added since
MayVisit(c) ==
    LET C == Registered(c.event_id) IN
    {(c.rest \cap C) \cup extra : extra \in SUBSET (C \ (c.visited \cup c.rest))}

\* lines 51-58: send_json to the connection returns (ok) or raises, the loop
\* takes its next step, and after its last step the failed connections are
\* discarded; a RuntimeError of the loop leaves hold_seat as a 500
HoldBroadcastResume(u) ==
    /\ At(u, "hold", "sending")
    /\ LET c == call[u]
           e == c.event_id
           o == c.connection
           m == SeatUpdate(c.done_seats[1], "held")
       IN \E ok \in BOOLEAN :
            /\ ok => ws[o].pc = "open" /\ ws[o].event_id = e
            /\ ws' = IF ok THEN [ws EXCEPT ![o].view[m.seat_id] = m.status] ELSE ws
            /\ LET disc == c.disconnected \cup (IF ok THEN {} ELSE {o}) IN
               \/ /\ SetChangedSize(c)
                  /\ Set(u, Raise(c, 500))
                  /\ UNCHANGED active_connections
               \/ /\ Cardinality(Registered(e)) = c.used
                  /\ \E R \in MayVisit(c) :
                        IF R = {}
                        THEN /\ active_connections' = [active_connections EXCEPT ![e] = @ \ disc]
                             /\ Set(u, Respond([c EXCEPT !.published = <<m>>], 200, TRUE, 0,
                                               c.seats, <<>>, c.done_seats))
                        ELSE /\ \E n \in R :
                                    Set(u, [c EXCEPT !.connection = n, !.visited = @ \cup {n},
                                                     !.rest = R \ {n}, !.disconnected = disc])
                             /\ UNCHANGED active_connections
    /\ UNCHANGED <<storeVars, lockVars, reaper>>

\* --------------------------------------------------- hold_multiple_seats
\* the rows Seat.id.in_(seat_ids) selects
FoundSeats(ids) == Range(ids) \cap SeatRows

\* the test of line 299 inverted
RollbackDeletesFailedOnly(c, s) == s \in Range(c.failed_seats)

\* line 299: "only delete if we just acquired it"
RollbackDeletes(c, s) == s \notin Range(c.failed_seats)

\* the test of line 295 left out
NeverFailed(c) == FALSE

\* line 295: the rollback branch is taken
AnyFailed(c) == c.failed_seats # <<>>

\* request.seat_ids is not read after the validation (line 261): the call goes
\* on with the rows of the query, in the order the query returned them
HoldMultipleStart(u, e, ids) ==
    /\ IsIdle(u)
    /\ LET c == [Idle EXCEPT !.op = "hold_multiple", !.event_id = e]
           found == FoundSeats(ids)
           event_ids == {SeatEvent(s) : s \in found}
       IN \/ /\ \/ ids = <<>>
                \/ Len(ids) > MAX_SEATS_PER_HOLD
                \/ Cardinality(event_ids) > 1
                \/ e \notin event_ids
             /\ Cardinality(found) = Len(ids) \/ ids = <<>> \/ Len(ids) > MAX_SEATS_PER_HOLD
             /\ Set(u, Raise(c, 400))
          \/ /\ ids # <<>>
             /\ Len(ids) <= MAX_SEATS_PER_HOLD
             /\ Cardinality(found) # Len(ids)
             /\ Set(u, Raise(c, 404))
          \/ /\ ids # <<>>
             /\ Len(ids) <= MAX_SEATS_PER_HOLD
             /\ Cardinality(found) = Len(ids)
             /\ event_ids = {e}
             /\ \E order \in Orders(found) :
                    Set(u, Load([c EXCEPT !.pc = "setnx", !.seats = order, !.i = 1], found))
    /\ UNCHANGED <<storeVars, lockVars, reaper, hubVars>>

\* after seat i of the acquisition loop: next seat, rollback or commit
AfterAcquire(c) ==
    IF c.i < Len(c.seats) THEN [c EXCEPT !.pc = "setnx", !.i = @ + 1]
    ELSE IF AnyFailed(c)
         THEN IF c.acquired_locks = <<>>
              THEN Respond(c, 200, FALSE, 0, <<>>, c.failed_seats, <<>>)
              ELSE [c EXCEPT !.pc = "rollback", !.i = 1]
         ELSE [c EXCEPT !.pc = "commit"]

HoldMultipleSetNx(u) ==
    /\ At(u, "hold_multiple", "setnx")
    /\ LET c == call[u]
           s == c.seats[c.i]
       IN IF SetNxSucceeds(s)
          THEN /\ SetLock(u, s)
               /\ Set(u, AfterAcquire([c EXCEPT !.acquired_locks = Append(@, s),
                                                !.fresh = @ \cup {s}]))
          ELSE /\ Set(u, [c EXCEPT !.pc = "get"])
               /\ UNCHANGED lockVars
    /\ UNCHANGED <<storeVars, reaper, hubVars>>

HoldMultipleGet(u) ==
    /\ At(u, "hold_multiple", "get")
    /\ LET c == call[u]
           s == c.seats[c.i]
       IN Set(u, AfterAcquire(IF OwnsLock(u, s)
                              THEN [c EXCEPT !.acquired_locks = Append(@, s)]
                              ELSE [c EXCEPT !.failed_seats = Append(@, s)]))
    /\ UNCHANGED <<storeVars, lockVars, reaper, hubVars>>

HoldMultipleRollback(u) ==
    /\ At(u, "hold_multiple", "rollback")
    /\ LET c == call[u]
           s == c.acquired_locks[c.i]
       IN /\ IF RollbackDeletes(c, s) THEN DeleteLock(s) ELSE UNCHANGED lockVars
          /\ Set(u, IF c.i < Len(c.acquired_locks)
                    THEN [c EXCEPT !.i = @ + 1]
                    ELSE Respond(c, 200, FALSE, 0, <<>>, c.failed_seats, <<>>))
    /\ UNCHANGED <<storeVars, reaper, hubVars>>

HoldMultipleCommit(u) ==
    /\ At(u, "hold_multiple", "commit")
    /\ LET c == call[u]
           S == Range(c.seats)
       IN /\ seat_status' = FlushStatus(c, S, "held")
          /\ hold_expiry' = FlushExpiry(c, S, HoldExpiryOnHold)
          /\ Set(u, [c EXCEPT !.pc = "broadcast", !.done_seats = c.seats])
    /\ UNCHANGED <<bookings, lockVars, reaper, hubVars>>

HoldMultipleBroadcast(u) ==
    /\ At(u, "hold_multiple", "broadcast")
    /\ LET q == Messages(call[u].done_seats, "held") IN
       /\ Publish(call[u].event_id, q)
       /\ Set(u, Respond([call[u] EXCEPT !.published = q], 200, TRUE, 0,
                         call[u].acquired_locks, <<>>, call[u].done_seats))
    /\ UNCHANGED <<storeVars, lockVars, reaper>>

HoldMultipleSteps(u) ==
    \/ HoldMultipleSetNx(u)
    \/ HoldMultipleGet(u)
    \/ HoldMultipleCommit(u)
    \/ HoldMultipleBroadcast(u)

\* ------------------------------------------------------- confirm_booking
\* the test without "not lock_holder": a missing key passes
LockCheckFailsOtherOnly(u, s) == s \in Seats /\ lock_holder[s] \notin {NoUser, u}

\* lines 355/423: the seat is skipped unless the caller owns its lock
LockCheckFails(u, s) == ~OwnsLock(u, s)

\* bookings that requests in flight may still add at their commit
PendingBookings ==
    LET n[S \in SUBSET Users] ==
            IF S = {} THEN 0
            ELSE LET u == CHOOSE x \in S : TRUE
                 IN n[S \ {u}] + (IF call[u].op = "confirm" /\ call[u].pc # "done"
                                  THEN Len(call[u].seat_ids) ELSE 0)
    IN n[Users]

\* after seat i of the confirm / release loop: next seat or commit
AfterSeat(c) ==
    IF c.i < Len(c.seat_ids) THEN [c EXCEPT !.pc = "get", !.i = @ + 1]
    ELSE [c EXCEPT !.pc = "commit"]

ConfirmStart(u, ids) ==
    /\ IsIdle(u)
    /\ Len(bookings) + PendingBookings + Len(ids) <= MaxBookings
    /\ LET c == [Idle EXCEPT !.op = "confirm", !.seat_ids = ids] IN
       Set(u, IF ids = <<>> THEN Raise(c, 400) ELSE [c EXCEPT !.pc = "get", !.i = 1])
    /\ UNCHANGED <<storeVars, lockVars, reaper, hubVars>>

ConfirmGet(u) ==
    /\ At(u, "confirm", "get")
    /\ LET c == call[u]
           s == c.seat_ids[c.i]
       IN Set(u, IF LockCheckFails(u, s)
                 THEN AfterSeat([c EXCEPT !.failed_seats = Append(@, s)])
                 ELSE [c EXCEPT !.pc = "query"])
    /\ UNCHANGED <<storeVars, lockVars, reaper, hubVars>>

\* line 359: the seat row is loaded
ConfirmQuery(u) ==
    /\ At(u, "confirm", "query")
    /\ Set(u, Load([call[u] EXCEPT !.pc = "delete"], {call[u].seat_ids[call[u].i]}))
    /\ UNCHANGED <<storeVars, lockVars, reaper, hubVars>>

\* lines 364-379: the seat and the new booking change in the session only;
\* the lock is deleted at once
ConfirmDelete(u) ==
    /\ At(u, "confirm", "delete")
    /\ LET c == call[u]
           s == c.seat_ids[c.i]
       IN /\ DeleteLock(s)
          /\ Set(u, AfterSeat([c EXCEPT !.done_seats = Append(@, s)]))
    /\ UNCHANGED <<storeVars, reaper, hubVars>>

\* the booking rows left with the column default of Booking.status
NewBookingsPending(u, q) == [k \in 1..Len(q) |-> [user_id |-> u, seat_id |-> q[k], status |-> "pending"]]

\* lines 368-375: one Booking(user_id, seat_id, status=confirmed) per confirmed seat
NewBookings(u, q) == [k \in 1..Len(q) |-> [user_id |-> u, seat_id |-> q[k], status |-> "confirmed"]]

ConfirmCommit(u) ==
    /\ At(u, "confirm", "commit")
    /\ LET c == call[u]
           S == Range(c.done_seats)
       IN /\ seat_status' = FlushStatus(c, S, "booked")
          /\ hold_expiry' = FlushExpiry(c, S, None)
          /\ bookings' = bookings \o NewBookings(u, c.done_seats)
          /\ Set(u, [c EXCEPT !.pc = "broadcast"])
    /\ UNCHANGED <<lockVars, reaper, hubVars>>

ConfirmBroadcast(u) ==
    /\ At(u, "confirm", "broadcast")
    /\ LET q == Messages(call[u].done_seats, "booked") IN
       /\ Publish(TheEvent, q)
       /\ Set(u, Respond([call[u] EXCEPT !.published = q], 200,
                         call[u].failed_seats = <<>>, 0, <<>>,
                         call[u].failed_seats, call[u].done_seats))
    /\ UNCHANGED <<storeVars, lockVars, reaper>>

ConfirmSteps(u) ==
    \/ ConfirmGet(u)
    \/ ConfirmQuery(u)
    \/ ConfirmDelete(u)
    \/ ConfirmCommit(u)
    \/ ConfirmBroadcast(u)

\* --------------------------------------------------------- release_seats
ReleaseStart(u, ids) ==
    /\ IsIdle(u)
    /\ LET c == [Idle EXCEPT !.op = "release", !.seat_ids = ids] IN
       Set(u, IF ids = <<>> THEN [c EXCEPT !.pc = "commit"]
              ELSE [c EXCEPT !.pc = "get", !.i = 1])
    /\ UNCHANGED <<storeVars, lockVars, reaper, hubVars>>

ReleaseGet(u) ==
    /\ At(u, "release", "get")
    /\ LET c == call[u]
           s == c.seat_ids[c.i]
       IN Set(u, IF LockCheckFails(u, s)
                 THEN AfterSeat([c EXCEPT !.failed_seats = Append(@, s)])
                 ELSE [c EXCEPT !.pc = "query"])
    /\ UNCHANGED <<storeVars, lockVars, reaper, hubVars>>

\* line 427: the seat row is loaded
ReleaseQuery(u) ==
    /\ At(u, "release", "query")
    /\ Set(u, Load([call[u] EXCEPT !.pc = "delete"], {call[u].seat_ids[call[u].i]}))
    /\ UNCHANGED <<storeVars, lockVars, reaper, hubVars>>

ReleaseDelete(u) ==
    /\ At(u, "release", "delete")
    /\ LET c == call[u]
           s == c.seat_ids[c.i]
       IN /\ DeleteLock(s)
          /\ Set(u, AfterSeat([c EXCEPT !.done_seats = Append(@, s)]))
    /\ UNCHANGED <<storeVars, reaper, hubVars>>

ReleaseCommit(u) ==
    /\ At(u, "release", "commit")
    /\ LET c == call[u]
           S == Range(c.done_seats)
       IN /\ seat_status' = FlushStatus(c, S, "available")
          /\ hold_expiry' = FlushExpiry(c, S, None)
          /\ Set(u, [c EXCEPT !.pc = "broadcast"])
    /\ UNCHANGED <<bookings, lockVars, reaper, hubVars>>

ReleaseBroadcast(u) ==
    /\ At(u, "release", "broadcast")
    /\ LET q == Messages(call[u].done_seats, "available") IN
       /\ Publish(TheEvent, q)
       /\ Set(u, Respond([call[u] EXCEPT !.published = q], 200, TRUE, 0, <<>>,
                         call[u].failed_seats, call[u].done_seats))
    /\ UNCHANGED <<storeVars, lockVars, reaper>>

ReleaseSteps(u) ==
    \/ ReleaseGet(u)
    \/ ReleaseQuery(u)
    \/ ReleaseDelete(u)
    \/ ReleaseCommit(u)
    \/ ReleaseBroadcast(u)

\* -------------------------------------------------------- cancel_booking
\* the filter Booking.user_id == current_user.id left out
BookingMissing(u, b) == b \notin 1..Len(bookings)

\* lines 464-470: no booking with this id belongs to the caller
BookingNotFound(u, b) == b \notin 1..Len(bookings) \/ bookings[b].user_id # u

\* the test of line 472 left out
NeverCancelled(b) == FALSE

\* line 472
AlreadyCancelled(b) == bookings[b].status = "cancelled"

CancelStart(u, b) ==
    /\ IsIdle(u)
    /\ LET c == [Idle EXCEPT !.op = "cancel", !.booking_id = b] IN
       Set(u, IF BookingNotFound(u, b) THEN Raise(c, 404)
              ELSE IF AlreadyCancelled(b) THEN Raise(c, 400)
              ELSE [c EXCEPT !.pc = "query", !.seats = <<bookings[b].seat_id>>])
    /\ UNCHANGED <<storeVars, lockVars, reaper, hubVars>>

\* line 476: the seat row of the booking is loaded
CancelQuery(u) ==
    /\ At(u, "cancel", "query")
    /\ Set(u, Load([call[u] EXCEPT !.pc = "commit"], {call[u].seats[1]}))
    /\ UNCHANGED <<storeVars, lockVars, reaper, hubVars>>

CancelCommit(u) ==
    /\ At(u, "cancel", "commit")
    /\ LET c == call[u]
           s == c.seats[1]
       IN /\ bookings' = [bookings EXCEPT ![c.booking_id].status = "cancelled"]
          /\ seat_status' = FlushStatus(c, {s}, "available")
          /\ hold_expiry' = FlushExpiry(c, {s}, None)
          /\ Set(u, [c EXCEPT !.pc = "broadcast", !.done_seats = <<s>>])
    /\ UNCHANGED <<lockVars, reaper, hubVars>>

CancelBroadcast(u) ==
    /\ At(u, "cancel", "broadcast")
    /\ LET q == Messages(call[u].done_seats, "available") IN
       /\ Publish(TheEvent, q)
       /\ Set(u, Respond([call[u] EXCEPT !.published = q], 200, TRUE, 0, <<>>, <<>>,
                         call[u].done_seats))
    /\ UNCHANGED <<storeVars, lockVars, reaper>>

CancelSteps(u) ==
    \/ CancelQuery(u)
    \/ CancelCommit(u)
    \/ CancelBroadcast(u)

\* ---------------------------------------------------------- get_my_holds
\* lines 513-516: the rows of the event with status held
HeldSeatsOf(e) == {s \in Seats : SeatEvent(s) = e /\ seat_status[s] = "held"}

\* the entry of my_held_seats (lines 535-539)
HeldSeat(s, ttl) == [seat_id |-> s, expires_in_seconds |-> ttl]

\* line 541: the response with the list and the earliest expiry
MyHoldsResponse(c) ==
    [Respond(c, 200, TRUE, 0, <<>>, <<>>, <<>>) EXCEPT
        !.my_held_seats = c.my_held_seats, !.hold_expires_at = c.hold_expires_at]

\* after seat i of the loop of line 521: next seat or the response
AfterHeldSeat(c) ==
    IF c.i < Len(c.seats) THEN [c EXCEPT !.pc = "get", !.i = @ + 1]
    ELSE MyHoldsResponse(c)

MyHoldsStart(u, e) ==
    /\ IsIdle(u)
    /\ LET c == [Idle EXCEPT !.op = "my_holds", !.event_id = e] IN
       \E order \in Orders(HeldSeatsOf(e)) :
           Set(u, IF order = <<>> THEN MyHoldsResponse(c)
                  ELSE [c EXCEPT !.pc = "get", !.seats = order, !.i = 1])
    /\ UNCHANGED <<storeVars, lockVars, reaper, hubVars>>

\* lines 523-526: redis.get(lock_key) compared with current_user.id
MyHoldsGet(u) ==
    /\ At(u, "my_holds", "get")
    /\ Set(u, IF OwnsLock(u, call[u].seats[call[u].i])
              THEN [call[u] EXCEPT !.pc = "ttl"]
              ELSE AfterHeldSeat(call[u]))
    /\ UNCHANGED <<storeVars, lockVars, reaper, hubVars>>

\* lines 527-539: redis.ttl(lock_key); a positive ttl competes for the earliest
\* expiry, the seat is listed whatever the ttl is
MyHoldsTtl(u) ==
    /\ At(u, "my_holds", "ttl")
    /\ LET c == call[u]
           s == c.seats[c.i]
           ttl == Ttl(s)
           expiry == ttl \div TickSeconds
           earliest == IF ttl > 0 /\ (c.hold_expires_at = None \/ expiry < c.hold_expires_at)
                       THEN expiry ELSE c.hold_expires_at
       IN Set(u, AfterHeldSeat([c EXCEPT !.my_held_seats = Append(@, HeldSeat(s, ttl)),
                                         !.hold_expires_at = earliest]))
    /\ UNCHANGED <<storeVars, lockVars, reaper, hubVars>>

MyHoldsSteps(u) ==
    \/ MyHoldsGet(u)
    \/ MyHoldsTtl(u)

\* ----------------------------------------------------- a failing commit
\* db.commit() raises (lines 223, 316, 381, 438, 487): no handler catches it,
\* the transaction is not written and the request is answered with 500; what
\* the handler did in Redis before stays
CommitFails(u) ==
    /\ call[u].pc = "commit"
    /\ Set(u, Raise(call[u], 500))
    /\ UNCHANGED <<storeVars, lockVars, reaper, hubVars>>

\* ------------------------------------------------- cleanup_expired_holds
\* lines 74-77: status == held and hold_expiry < now
ExpiredSeats == {s \in Seats : seat_status[s] = "held" /\ hold_expiry[s] = Past}

\* the test of line 81 inverted
MayReclaimLocked(s) == LockExists(s)

\* line 81: if not redis.exists(lock_key)
MayReclaim(s) == ~LockExists(s)

ReaperAdvance(r) ==
    IF r.i < Len(r.expired_seats) THEN [r EXCEPT !.pc = "check", !.i = @ + 1]
    ELSE [r EXCEPT !.pc = "commit"]

ReaperScan ==
    /\ reaper.pc = "sleep"
    /\ ExpiredSeats # {}
    /\ \E order \in Orders(ExpiredSeats) :
           reaper' = [ReaperIdle EXCEPT !.pc = "check", !.expired_seats = order, !.i = 1]
    /\ UNCHANGED <<storeVars, lockVars, call, hubVars>>

\* lines 80-83: the seat is changed in the session; the broadcast follows
ReaperCheck ==
    /\ reaper.pc = "check"
    /\ LET s == reaper.expired_seats[reaper.i] IN
       reaper' = IF MayReclaim(s)
                 THEN [reaper EXCEPT !.pc = "broadcast", !.dirty = @ \cup {s}]
                 ELSE ReaperAdvance(reaper)
    /\ UNCHANGED <<storeVars, lockVars, call, hubVars>>

ReaperBroadcast ==
    /\ reaper.pc = "broadcast"
    /\ Publish(TheEvent, <<SeatUpdate(reaper.expired_seats[reaper.i], "available")>>)
    /\ reaper' = ReaperAdvance(reaper)
    /\ UNCHANGED <<storeVars, lockVars, call>>

\* line 95: every row changed was loaded as held with a hold_expiry, so both
\* columns are written
ReaperCommit ==
    /\ reaper.pc = "commit"
    /\ seat_status' = [s \in Seats |-> IF s \in reaper.dirty THEN "available" ELSE seat_status[s]]
    /\ hold_expiry' = [s \in Seats |-> IF s \in reaper.dirty THEN None ELSE hold_expiry[s]]
    /\ reaper' = ReaperIdle
    /\ UNCHANGED <<bookings, lockVars, call, hubVars>>

Reaper ==
    \/ ReaperScan
    \/ ReaperCheck
    \/ ReaperBroadcast
    \/ ReaperCommit

\* the exception leaves the while loop: the task ends
StopsAfterFailure == [ReaperIdle EXCEPT !.pc = "stopped"]

\* line 64: the except branch lies inside the while loop, the task goes on with
\* await asyncio.sleep(10)
AfterFailure == ReaperIdle

\* lines 68-99 raise: the query, redis.exists, a broadcast or db.commit fails;
\* the finally branch closes the session, which drops the changes it holds
ReaperFail ==
    /\ reaper.pc \in {"sleep", "check", "broadcast", "commit"}
    /\ reaper' = [ReaperIdle EXCEPT !.pc = "failed"]
    /\ UNCHANGED <<storeVars, lockVars, call, hubVars>>

\* lines 101-102: the exception is printed
ReaperResume ==
    /\ reaper.pc = "failed"
    /\ reaper' = AfterFailure
    /\ UNCHANGED <<storeVars, lockVars, call, hubVars>>

\* ------------------------------------------------------------ the system
\* no other principal has a request in flight
Alone(u) == \A v \in Users \ {u} : call[v].op = "idle"

\* the request lists of the multi-seat workloads
SeatLists == SeqsUpTo(Seats, MaxReq)

\* One worker serves every kind of request for TheSeat, one request at a time,
\* while the background task runs and the clock advances.
Next ==
    \/ Tick
    \/ Reaper
    \/ \E u \in Users : Return(u)
    \/ \E u \in Users, e \in {TheEvent, OtherEvent}, s \in {TheSeat, MissingSeat} :
            Alone(u) /\ HoldStart(u, e, s)
    \/ \E u \in Users : HoldSteps(u)
    \/ \E u \in Users : Alone(u) /\ HoldMultipleStart(u, TheEvent, <<TheSeat>>)
    \/ \E u \in Users : HoldMultipleSteps(u)
    \/ \E u \in Users, ids \in {<<>>, <<TheSeat>>} : Alone(u) /\ ConfirmStart(u, ids)
    \/ \E u \in Users : ConfirmSteps(u)
    \/ \E u \in Users : Alone(u) /\ ReleaseStart(u, <<TheSeat>>)
    \/ \E u \in Users : ReleaseSteps(u)
    \/ \E u \in Users, b \in 1..(MaxBookings + 1) : Alone(u) /\ CancelStart(u, b)
    \/ \E u \in Users : CancelSteps(u)

Spec == Init /\ [][Next]_vars

\* One worker serves the valid single-seat requests for TheSeat; the background
\* task and every request in flight keep running.
NextLive ==
    \/ Tick
    \/ Reaper
    \/ \E u \in Users : Return(u)
    \/ \E u \in Users : Alone(u) /\ HoldStart(u, TheEvent, TheSeat)
    \/ \E u \in Users : HoldSteps(u)
    \/ \E u \in Users : Alone(u) /\ ConfirmStart(u, <<TheSeat>>)
    \/ \E u \in Users : ConfirmSteps(u)
    \/ \E u \in Users : Alone(u) /\ ReleaseStart(u, <<TheSeat>>)
    \/ \E u \in Users : ReleaseSteps(u)
    \/ \E u \in Users, b \in 1..MaxBookings : Alone(u) /\ CancelStart(u, b)
    \/ \E u \in Users : CancelSteps(u)

HandlerSteps ==
    \E u \in Users :
        \/ Return(u)
        \/ HoldSteps(u)
        \/ ConfirmSteps(u)
        \/ ReleaseSteps(u)
        \/ CancelSteps(u)

SpecLive == Init /\ [][NextLive]_vars /\ WF_vars(Reaper) /\ WF_vars(HandlerSteps)

\* Several workers: the principals race to hold, confirm and release TheSeat.
NextHold ==
    \/ Tick
    \/ \E u \in Users : Return(u)
    \/ \E u \in Users : HoldStart(u, TheEvent, TheSeat)
    \/ \E u \in Users : HoldSteps(u)
    \/ \E u \in Users : ConfirmStart(u, <<TheSeat>>)
    \/ \E u \in Users : ConfirmSteps(u)
    \/ \E u \in Users : ReleaseStart(u, <<TheSeat>>)
    \/ \E u \in Users : ReleaseSteps(u)

SpecHold == Init /\ [][NextHold]_vars

\* Several workers: the principals race to hold several seats at once.
NextMulti ==
    \/ Tick
    \/ \E u \in Users : Return(u)
    \/ \E u \in Users, ids \in SeatLists : HoldMultipleStart(u, TheEvent, ids)
    \/ \E u \in Users : HoldMultipleSteps(u)
    \/ \E u \in Users : HoldMultipleRollback(u)

SpecMulti == Init /\ [][NextMulti]_vars

\* One worker: seats are held and then confirmed, several per request.
NextConfirm ==
    \/ Tick
    \/ \E u \in Users : Return(u)
    \/ \E u \in Users, s \in Seats : Alone(u) /\ HoldStart(u, TheEvent, s)
    \/ \E u \in Users : HoldSteps(u)
    \/ \E u \in Users, ids \in SeatLists : Alone(u) /\ ConfirmStart(u, ids)
    \/ \E u \in Users : ConfirmSteps(u)

SpecConfirm == Init /\ [][NextConfirm]_vars

\* One worker: seats are held, one seat is confirmed, and seats are released,
\* several per request.
NextRelease ==
    \/ Tick
    \/ \E u \in Users : Return(u)
    \/ \E u \in Users, s \in Seats : Alone(u) /\ HoldStart(u, TheEvent, s)
    \/ \E u \in Users : HoldSteps(u)
    \/ \E u \in Users : Alone(u) /\ ConfirmStart(u, <<TheSeat>>)
    \/ \E u \in Users : ConfirmSteps(u)
    \/ \E u \in Users, ids \in SeatLists : Alone(u) /\ ReleaseStart(u, ids)
    \/ \E u \in Users : ReleaseSteps(u)

SpecRelease == Init /\ [][NextRelease]_vars

\* a request list longer than hold_multiple_seats accepts
TooMany == [k \in 1..(MAX_SEATS_PER_HOLD + 1) |-> TheSeat]

\* the single-seat requests of the validation workload, as <<event, seat>>
HoldInputs ==
    ({TheEvent, OtherEvent} \X {TheSeat, MissingSeat, ForeignSeat}) \ {<<OtherEvent, ForeignSeat>>}

\* the multi-seat requests of the validation workload, as <<event, seat ids>>
HoldMultipleInputs ==
    ({TheEvent} \X (SeatLists \cup {TooMany, <<MissingSeat>>, <<TheSeat, MissingSeat>>,
                                    <<ForeignSeat>>, <<TheSeat, ForeignSeat>>}))
    \cup ({OtherEvent} \X {<<>>, <<TheSeat>>, <<TheSeat, ForeignSeat>>})

\* One worker serves valid and invalid hold and hold_multiple requests; an
\* observer of the event watches.
NextValidate ==
    \/ Tick
    \/ \E u \in Users : Return(u)
    \/ \E u \in Users, in \in HoldInputs : Alone(u) /\ HoldStart(u, in[1], in[2])
    \/ \E u \in Users : HoldSteps(u)
    \/ \E u \in Users, in \in HoldMultipleInputs :
            Alone(u) /\ HoldMultipleStart(u, in[1], in[2])
    \/ \E u \in Users : HoldMultipleSteps(u)
    \/ \E u \in Users : HoldMultipleRollback(u)
    \/ \E e \in {TheEvent, MissingEvent} : WsStart(1, e)
    \/ WebSocket(1)

SpecValidate == Init /\ [][NextValidate]_vars

\* One worker serves hold and release requests for TheSeat while observers
\* subscribe to the events and leave, and deliveries to them may fail.
NextHub ==
    \/ Tick
    \/ \E u \in Users : Return(u)
    \/ \E u \in Users : Alone(u) /\ HoldStart(u, TheEvent, TheSeat)
    \/ \E u \in Users : HoldSteps(u)
    \/ \E u \in Users : Alone(u) /\ ReleaseStart(u, <<TheSeat>>)
    \/ \E u \in Users : ReleaseSteps(u)
    \/ \E o \in Observers, e \in Events \cup {MissingEvent} : WsStart(o, e)
    \/ \E o \in Observers : WebSocket(o)

SpecHub == Init /\ [][NextHub]_vars

\* One worker serves hold, confirm and release requests for TheSeat and the
\* background task runs while an observer subscribes and leaves.
NextObserve ==
    \/ Tick
    \/ Reaper
    \/ \E u \in Users : Return(u)
    \/ \E u \in Users : Alone(u) /\ HoldStart(u, TheEvent, TheSeat)
    \/ \E u \in Users : HoldSteps(u)
    \/ \E u \in Users : Alone(u) /\ ConfirmStart(u, <<TheSeat>>)
    \/ \E u \in Users : ConfirmSteps(u)
    \/ \E u \in Users : Alone(u) /\ ReleaseStart(u, <<TheSeat>>)
    \/ \E u \in Users : ReleaseSteps(u)
    \/ \E e \in {TheEvent, MissingEvent} : WsStart(1, e)
    \/ WebSocket(1)

SpecObserve == Init /\ [][NextObserve]_vars

\* One worker: TheSeat is held and confirmed, and bookings are cancelled; the
\* background task does not run.
NextCancel ==
    \/ Tick
    \/ \E u \in Users : Return(u)
    \/ \E u \in Users : Alone(u) /\ HoldStart(u, TheEvent, TheSeat)
    \/ \E u \in Users : HoldSteps(u)
    \/ \E u \in Users : Alone(u) /\ ConfirmStart(u, <<TheSeat>>)
    \/ \E u \in Users : ConfirmSteps(u)
    \/ \E u \in Users, b \in 1..MaxBookings : Alone(u) /\ CancelStart(u, b)
    \/ \E u \in Users : CancelSteps(u)

SpecCancel == Init /\ [][NextCancel]_vars

\* One worker serves hold requests for TheSeat and delivers their seat_update
\* send by send, while observers subscribe to the event and leave.
NextPublish ==
    \/ Tick
    \/ \E u \in Users : Return(u)
    \/ \E u \in Users : Alone(u) /\ HoldStart(u, TheEvent, TheSeat)
    \/ \E u \in Users : HoldSetNx(u)
    \/ \E u \in Users : HoldGet(u)
    \/ \E u \in Users : HoldTtl(u)
    \/ \E u \in Users : HoldCommit(u)
    \/ \E u \in Users : HoldBroadcastBegin(u)
    \/ \E u \in Users : HoldBroadcastResume(u)
    \/ \E o \in Observers, e \in {TheEvent, MissingEvent} : WsStart(o, e)
    \/ \E o \in Observers : WebSocket(o)

SpecPublish == Init /\ [][NextPublish]_vars

\* One worker: the principals hold and release the seats and ask for their
\* holds.
NextMyHolds ==
    \/ Tick
    \/ \E u \in Users : Return(u)
    \/ \E u \in Users, s \in Seats : Alone(u) /\ HoldStart(u, TheEvent, s)
    \/ \E u \in Users : HoldSteps(u)
    \/ \E u \in Users, s \in Seats : Alone(u) /\ ReleaseStart(u, <<s>>)
    \/ \E u \in Users : ReleaseSteps(u)
    \/ \E u \in Users, e \in {TheEvent, OtherEvent} : Alone(u) /\ MyHoldsStart(u, e)
    \/ \E u \in Users : MyHoldsSteps(u)

SpecMyHolds == Init /\ [][NextMyHolds]_vars

\* One worker serves every kind of request for TheSeat; the commit of a
\* request may fail.
NextCommitFail ==
    \/ Tick
    \/ \E u \in Users : Return(u)
    \/ \E u \in Users : CommitFails(u)
    \/ \E u \in Users : Alone(u) /\ HoldStart(u, TheEvent, TheSeat)
    \/ \E u \in Users : HoldSteps(u)
    \/ \E u \in Users : Alone(u) /\ HoldMultipleStart(u, TheEvent, <<TheSeat>>)
    \/ \E u \in Users : HoldMultipleSteps(u)
    \/ \E u \in Users : Alone(u) /\ ConfirmStart(u, <<TheSeat>>)
    \/ \E u \in Users : ConfirmSteps(u)
    \/ \E u \in Users : Alone(u) /\ ReleaseStart(u, <<TheSeat>>)
    \/ \E u \in Users : ReleaseSteps(u)
    \/ \E u \in Users, b \in 1..MaxBookings : Alone(u) /\ CancelStart(u, b)
    \/ \E u \in Users : CancelSteps(u)

SpecCommitFail == Init /\ [][NextCommitFail]_vars

\* One worker serves hold and release requests for TheSeat while an observer
\* subscribes and leaves; the cycles of the background task may fail at any
\* of their steps, but no step fails for ever.
NextRetry ==
    \/ Tick
    \/ Reaper
    \/ ReaperFail
    \/ ReaperResume
    \/ \E u \in Users : Return(u)
    \/ \E u \in Users : Alone(u) /\ HoldStart(u, TheEvent, TheSeat)
    \/ \E u \in Users : HoldSteps(u)
    \/ \E u \in Users : Alone(u) /\ ReleaseStart(u, <<TheSeat>>)
    \/ \E u \in Users : ReleaseSteps(u)
    \/ \E e \in {TheEvent, MissingEvent} : WsStart(1, e)
    \/ WebSocket(1)

RetrySteps ==
    \E u \in Users :
        \/ Return(u)
        \/ HoldSteps(u)
        \/ ReleaseSteps(u)

SpecRetry ==
    /\ Init
    /\ [][NextRetry]_vars
    /\ WF_vars(RetrySteps)
    /\ WF_vars(ReaperResume)
    /\ SF_vars(ReaperScan)
    /\ SF_vars(ReaperCheck)
    /\ SF_vars(ReaperBroadcast)
    /\ SF_vars(ReaperCommit)

\* ------------------------------------------------------------ properties
\* the principal u takes a step of its request
StepOf(u) == call'[u] # call[u]

ConfirmedOn(s) ==
    {b \in 1..Len(bookings) : bookings[b].seat_id = s /\ bookings[b].status = "confirmed"}

\* C1: no seat is claimed by two principals at once: a seat never has two
\* confirmed bookings, and while a principal has a confirmed booking for a seat
\* no other principal holds it (owns its lock with the seat in status held).
C1_NoDoubleClaim ==
    \A s \in Seats :
        /\ Cardinality(ConfirmedOn(s)) <= 1
        /\ \A b \in ConfirmedOn(s) :
               ~(seat_status[s] = "held" /\ lock_holder[s] \notin {NoUser, bookings[b].user_id})

\* C2: of the hold attempts that race for a seat, only one that finds no lock
\* entry acquires the fresh lock (and goes on to set the seat held); an attempt
\* that finds the entry of another principal changes nothing and returns
\* success = false.
C2_OneFreshLock ==
    [][\A u \in Users :
        LET s == call[u].seats[1] IN
        /\ (At(u, "hold", "setnx") /\ StepOf(u)) =>
               IF lock_holder[s] = NoUser
               THEN call'[u].pc = "commit" /\ lock_holder'[s] = u
               ELSE call'[u].pc = "get" /\ UNCHANGED <<storeVars, lockVars>>
        /\ (At(u, "hold", "get") /\ StepOf(u) /\ lock_holder[s] # u) =>
               /\ call'[u].pc = "done"
               /\ ~call'[u].res.success
               /\ UNCHANGED <<storeVars, lockVars>>
        /\ (call[u].op = "hold" /\ StepOf(u) /\ seat_status' # seat_status) =>
               call[u].pc = "commit" /\ call[u].fresh = {s}
      ]_vars

\* one attempt owns the fresh lock while a concurrent attempt has been refused
C2_Witness ==
    \E u, v \in Users :
        /\ u # v
        /\ At(v, "hold", "commit") /\ lock_holder[TheSeat] = v
        /\ At(u, "hold", "done") /\ call[u].res.code = 200 /\ ~call[u].res.success

\* C3: hold_multiple is all-or-nothing on the seat rows: once a seat of the
\* request has failed, no step of the call changes a status or a hold_expiry,
\* and the call returns success = false with an empty held list.
C3_AllOrNothing ==
    [][\A u \in Users :
        (call[u].op = "hold_multiple" /\ call[u].pc # "done" /\ StepOf(u)
            /\ (call[u].failed_seats # <<>> \/ call'[u].failed_seats # <<>>)) =>
        /\ seat_status' = seat_status
        /\ hold_expiry' = hold_expiry
        /\ call'[u].pc \in {"setnx", "get", "rollback", "done"}
        /\ call'[u].pc = "done" =>
               /\ ~call'[u].res.success
               /\ call'[u].acquired_locks = <<>>
               /\ call'[u].failed_seats # <<>>
      ]_vars

\* a call has failed on one seat and the other seat of the request is untouched
C3_Witness ==
    \E u \in Users :
        /\ At(u, "hold_multiple", "done")
        /\ call[u].res.code = 200 /\ ~call[u].res.success
        /\ call[u].acquired_locks = <<>> /\ call[u].failed_seats # <<>>
        /\ call[u].fresh # {}
        /\ \A s \in call[u].fresh : seat_status[s] = "available"

FailedHoldMultiple(u) ==
    At(u, "hold_multiple", "done") /\ call[u].res.code = 200 /\ ~call[u].res.success

\* C4: when a hold_multiple call has failed, none of the lock entries it newly
\* set is left owned by the caller.
C4_FreshLocksReleased ==
    \A u \in Users :
        FailedHoldMultiple(u) => \A s \in call[u].fresh : lock_holder[s] # u

C4_Witness ==
    \E u \in Users :
        /\ FailedHoldMultiple(u)
        /\ call[u].fresh # {}
        /\ \A s \in call[u].fresh : lock_holder[s] = NoUser

\* the seats whose lock the caller owned before the call
Preowned(c) == Range(c.acquired_locks) \ c.fresh

\* C5: no step of a hold_multiple call removes a lock entry that existed
\* before the call and is owned by the caller.
C5_PreownedLocksKept ==
    [][\A u \in Users :
        (call[u].op = "hold_multiple" /\ StepOf(u)) =>
        \A s \in Preowned(call[u]) : lock_holder[s] = u => lock_holder'[s] = u
      ]_vars

\* C6: a booked seat has no hold_expiry and a held seat has one.
C6_StatusExpiry ==
    \A s \in Seats :
        /\ seat_status[s] = "booked" => hold_expiry[s] = None
        /\ seat_status[s] = "held" => hold_expiry[s] # None

\* C7: when the background task commits a reclaimed seat, the seat has no lock
\* entry.
C7_ReclaimOnlyUnlocked ==
    [][(reaper.pc = "commit" /\ reaper'.pc = "sleep") =>
        \A s \in reaper.dirty : ~LockExists(s)
      ]_vars

Reclaimable(s) == seat_status[s] = "held" /\ hold_expiry[s] = Past /\ ~LockExists(s)

\* C8: a held seat whose hold_expiry has passed and that has no lock entry does
\* not stay so: the background task makes it available, unless a request
\* changes the seat first.
C8_ExpiredHoldReclaimed ==
    \A s \in Seats :
        Reclaimable(s) ~> (seat_status[s] # "held" \/ hold_expiry[s] # Past)

\* the background task is about to commit the reclaim of an abandoned seat
C8_Witness ==
    /\ reaper.pc = "commit"
    /\ reaper.dirty # {}
    /\ \A s \in reaper.dirty : Reclaimable(s)

\* C9: cancel_booking of a confirmed booking by its owner is accepted whatever
\* the lock and the background task do, its commit turns the booking (until
\* then confirmed) to cancelled and the seat to available, and a cancel of a
\* cancelled booking is refused and changes nothing.
C9_CancelOnce ==
    [][\A u \in Users :
        LET b == call'[u].booking_id
            c == call[u]
        IN
        /\ (call[u].op = "idle" /\ call'[u].op = "cancel" /\ ~BookingNotFound(u, b)) =>
               IF bookings[b].status = "confirmed"
               THEN call'[u].pc = "query"
               ELSE call'[u].pc = "done" /\ call'[u].res.code = 400
                    /\ UNCHANGED <<storeVars, lockVars>>
        /\ (At(u, "cancel", "commit") /\ StepOf(u)) =>
               /\ bookings[c.booking_id].status = "confirmed"
               /\ bookings'[c.booking_id].status = "cancelled"
               /\ seat_status'[bookings[c.booking_id].seat_id] = "available"
               /\ hold_expiry'[bookings[c.booking_id].seat_id] = None
        /\ (At(u, "cancel", "broadcast") /\ StepOf(u)) =>
               call'[u].res.success /\ UNCHANGED <<storeVars, lockVars>>
      ]_vars

\* a second cancel of a cancelled booking has been refused
C9_Witness ==
    \E u \in Users :
        /\ At(u, "cancel", "done")
        /\ call[u].res.code = 400
        /\ bookings[call[u].booking_id].status = "cancelled"
        /\ bookings[call[u].booking_id].user_id = u

\* C10: confirm handles a seat only when the caller owns its lock entry: a seat
\* whose lock is absent or owned by another principal is added to failed_seats
\* and nothing else changes; the commit books exactly the seats that passed the
\* test and adds one booking for each; the response reports both lists.
C10_ConfirmPerSeat ==
    [][\A u \in Users :
        LET c == call[u]
            s == c.seat_ids[c.i]
        IN
        /\ (At(u, "confirm", "get") /\ StepOf(u)) =>
               /\ UNCHANGED <<storeVars, lockVars>>
               /\ call'[u].done_seats = c.done_seats
               /\ IF lock_holder[s] = u
                  THEN call'[u].pc = "query" /\ call'[u].failed_seats = c.failed_seats
                  ELSE call'[u].failed_seats = Append(c.failed_seats, s)
        /\ (At(u, "confirm", "commit") /\ StepOf(u)) =>
               /\ UNCHANGED lockVars
               /\ \A x \in Seats :
                      IF x \in Range(c.done_seats)
                      THEN seat_status'[x] = "booked"
                      ELSE seat_status'[x] = seat_status[x] /\ hold_expiry'[x] = hold_expiry[x]
               /\ Len(bookings') = Len(bookings) + Len(c.done_seats)
               /\ SubSeq(bookings', 1, Len(bookings)) = bookings
               /\ \A k \in 1..Len(c.done_seats) :
                      bookings'[Len(bookings) + k].seat_id = c.done_seats[k]
        /\ (At(u, "confirm", "broadcast") /\ StepOf(u)) =>
               /\ call'[u].failed_seats = c.failed_seats
               /\ call'[u].done_seats = c.done_seats
               /\ call'[u].res.success = (c.failed_seats = <<>>)
      ]_vars

\* a confirm has returned with one seat confirmed and another one failed
C10_Witness ==
    \E u \in Users :
        /\ At(u, "confirm", "done")
        /\ call[u].done_seats # <<>>
        /\ \A s \in Range(call[u].done_seats) : seat_status[s] = "booked"
        /\ \E s \in Range(call[u].failed_seats) \ Range(call[u].done_seats) :
               seat_status[s] # "booked"

\* the bookings b of bks for seat s, owned by u, with status confirmed
ConfirmedBy(bks, u, s) ==
    {b \in 1..Len(bks) :
        bks[b].seat_id = s /\ bks[b].user_id = u /\ bks[b].status = "confirmed"}

\* C11: for every seat a confirm call reports as confirmed: the call deletes the
\* lock entry of the seat, its commit leaves the seat booked with hold_expiry
\* NULL and adds exactly one confirmed booking for the seat and the caller, and
\* when the call returns the seat is booked, has no hold_expiry and no lock entry.
C11_ConfirmedSeatBooked ==
    [][\A u \in Users :
        LET c == call[u] IN
        /\ (At(u, "confirm", "delete") /\ StepOf(u)) =>
               /\ lock_holder'[c.seat_ids[c.i]] = NoUser
               /\ call'[u].done_seats = Append(c.done_seats, c.seat_ids[c.i])
        /\ (At(u, "confirm", "commit") /\ StepOf(u)) =>
               \A s \in Range(c.done_seats) :
                   /\ seat_status'[s] = "booked"
                   /\ hold_expiry'[s] = None
                   /\ Cardinality(ConfirmedBy(bookings', u, s)) =
                          Cardinality(ConfirmedBy(bookings, u, s))
                              + Cardinality({k \in 1..Len(c.done_seats) : c.done_seats[k] = s})
        /\ (At(u, "confirm", "broadcast") /\ StepOf(u)) =>
               /\ call'[u].done_seats = c.done_seats
               /\ \A s \in Range(c.done_seats) :
                      /\ seat_status'[s] = "booked"
                      /\ hold_expiry'[s] = None
                      /\ lock_holder'[s] = NoUser
                      /\ ConfirmedBy(bookings', u, s) # {}
      ]_vars

\* a confirm has returned two confirmed seats, each booked and unlocked
C11_Witness ==
    \E u \in Users :
        /\ At(u, "confirm", "done")
        /\ Len(call[u].done_seats) = 2
        /\ call[u].failed_seats = <<>>
        /\ \A s \in Range(call[u].done_seats) :
               /\ seat_status[s] = "booked" /\ hold_expiry[s] = None
               /\ lock_holder[s] = NoUser /\ ConfirmedBy(bookings, u, s) # {}

\* C12: a seat becomes booked only from status held.
C12_BookedOnlyFromHeld ==
    [][\A s \in Seats :
        (seat_status'[s] = "booked" /\ seat_status[s] # "booked") => seat_status[s] = "held"
      ]_vars

\* C13: a booked seat leaves status booked only by the commit of cancel_booking.
C13_BookedLeavesByCancel ==
    [][\A s \in Seats :
        (seat_status[s] = "booked" /\ seat_status'[s] # "booked") =>
            \E u \in Users : At(u, "cancel", "commit") /\ StepOf(u)
      ]_vars

\* C14: the seat of every confirmed booking is booked.
C14_ConfirmedBookingSeatBooked ==
    \A b \in 1..Len(bookings) :
        bookings[b].status = "confirmed" => seat_status[bookings[b].seat_id] = "booked"

\* C15: the commit of a background cycle never sets a booked seat to available.
C15_ReaperKeepsBooked ==
    [][(reaper.pc = "commit" /\ reaper'.pc = "sleep") =>
        \A s \in reaper.dirty : seat_status[s] # "booked"
      ]_vars

\* C17: a publish to an event delivers the message to every observer registered
\* for that event whose delivery does not fail, removes every observer whose
\* delivery fails from the event's set and still delivers to the rest; it
\* delivers nothing to the observers of other events and leaves their sets as
\* they are.
C17_PublishDelivers ==
    [][\A u \in Users :
        (call[u].pc = "broadcast" /\ StepOf(u) /\ Len(call'[u].published) = 1) =>
            LET e == IF call[u].op = "hold" THEN call[u].event_id ELSE TheEvent
                m == call'[u].published[1]
            IN \E F \in SUBSET Registered(e) :
                /\ \A o \in Registered(e) \ F :
                       ws'[o] = [ws[o] EXCEPT !.view[m.seat_id] = m.status]
                /\ \A o \in Observers \ (Registered(e) \ F) : ws'[o] = ws[o]
                /\ DOMAIN active_connections' = DOMAIN active_connections
                /\ \A x \in DOMAIN active_connections :
                       active_connections'[x] =
                           IF x = e THEN Registered(e) \ F ELSE active_connections[x]
    ]_vars

\* a hold has been published while two observers of its event and one of
\* another event were registered: one delivery failed, the other observer of
\* the event has the update, the observer of the other event has nothing
C17_Witness ==
    \E u \in Users, a, b, c \in Observers :
        /\ At(u, "hold", "done") /\ call[u].published = <<SeatUpdate(TheSeat, "held")>>
        /\ Registered(TheEvent) = {a} /\ ws[a].view[TheSeat] = "held"
        /\ ws[b].pc = "open" /\ ws[b].event_id = TheEvent /\ b # a
        /\ ws[b].view[TheSeat] = "available"
        /\ Registered(OtherEvent) = {c} /\ ws[c].view = [s \in Seats |-> ""]

\* the categories of invalid hold requests: seat not found, wrong event
InvalidHold(e, s) == s \notin SeatRows \/ SeatEvent(s) # e

\* the categories of invalid hold_multiple requests: empty list, more than 10
\* seats, a seat not found, seats of several events, wrong event
InvalidHoldMultiple(e, ids) ==
    \/ ids = <<>>
    \/ Len(ids) > MAX_SEATS_PER_HOLD
    \/ \E k \in 1..Len(ids) : ids[k] \notin SeatRows
    \/ \E k, l \in 1..Len(ids) :
            ids[k] \in SeatRows /\ ids[l] \in SeatRows /\ SeatEvent(ids[k]) # SeatEvent(ids[l])
    \/ \E k \in 1..Len(ids) : ids[k] \in SeatRows /\ SeatEvent(ids[k]) # e

\* C18: hold and hold_multiple reject an invalid request (seat not found, wrong
\* event, seats of several events, empty list, more than 10 seats) in their
\* first step, before any lock is asked for: the response is an error, and no
\* lock entry, seat status, hold_expiry or booking has changed and nothing has
\* been broadcast.
C18_InvalidRejected ==
    [][\A u \in Users : (IsIdle(u) /\ call'[u].op \in {"hold", "hold_multiple"}) =>
        /\ \A in \in HoldInputs :
               (InvalidHold(in[1], in[2]) /\ HoldStart(u, in[1], in[2])) =>
                   /\ call'[u].pc = "done" /\ call'[u].res.code \in {400, 404}
                   /\ ~call'[u].res.success
                   /\ call'[u].fresh = {} /\ call'[u].published = <<>>
                   /\ UNCHANGED <<storeVars, lockVars, hubVars>>
        /\ \A in \in HoldMultipleInputs :
               (InvalidHoldMultiple(in[1], in[2]) /\ HoldMultipleStart(u, in[1], in[2])) =>
                   /\ call'[u].pc = "done" /\ call'[u].res.code \in {400, 404}
                   /\ ~call'[u].res.success
                   /\ call'[u].fresh = {} /\ call'[u].published = <<>>
                   /\ UNCHANGED <<storeVars, lockVars, hubVars>>
    ]_vars

\* a request has been rejected while the other principal holds TheSeat and an
\* observer is registered: the lock, the seat and the observer's view stand
C18_Witness ==
    \E u, v \in Users :
        /\ u # v
        /\ call[u].op \in {"hold", "hold_multiple"} /\ call[u].pc = "done"
        /\ call[u].res.code \in {400, 404} /\ call[u].published = <<>>
        /\ lock_holder[TheSeat] = v /\ seat_status[TheSeat] = "held"
        /\ Registered(TheEvent) = {1} /\ ws[1].view[TheSeat] = "held"

\* C20: a hold on a seat whose live lock is owned by another principal returns
\* success = false and changes nothing: the SETNX and the GET that find the
\* other principal's entry leave the lock owner and its TTL, the seat status
\* and hold_expiry and the bookings as they are, nothing is broadcast, and the
\* GET step ends the call with success = false.
C20_HoldRefused ==
    [][\A u \in Users :
        LET s == call[u].seats[1] IN
        /\ (At(u, "hold", "setnx") /\ StepOf(u) /\ lock_holder[s] \notin {NoUser, u}) =>
               /\ call'[u].pc = "get"
               /\ UNCHANGED <<storeVars, lockVars, hubVars>>
        /\ (At(u, "hold", "get") /\ StepOf(u) /\ lock_holder[s] \notin {NoUser, u}) =>
               /\ call'[u].pc = "done" /\ ~call'[u].res.success
               /\ call'[u].failed_seats = <<s>> /\ call'[u].acquired_locks = <<>>
               /\ call'[u].done_seats = <<>> /\ call'[u].published = <<>>
               /\ UNCHANGED <<storeVars, lockVars, hubVars>>
    ]_vars

\* a hold has been refused and the other principal's lock is still live on the
\* seat it holds
C20_Witness ==
    \E u, v \in Users :
        /\ v # u
        /\ At(u, "hold", "done") /\ ~call[u].res.success /\ call[u].res.code = 200
        /\ call[u].failed_seats = <<TheSeat>> /\ call[u].published = <<>>
        /\ lock_holder[TheSeat] = v /\ lock_ttl[TheSeat] = LockTtlTicks
        /\ seat_status[TheSeat] = "held" /\ hold_expiry[TheSeat] = HoldTicks

Quiescent == reaper.pc = "sleep" /\ \A u \in Users : call[u].pc \in {"idle", "done"}

\* C16: an observer that has subscribed to an event and has never failed a
\* delivery has received the snapshot and then every push; once no operation is
\* in flight, the snapshot with the pushes applied is the persisted status of
\* every seat of the event.
C16_ObserverConverges ==
    \A o \in Observers :
        (ws[o].pc = "open" /\ o \in Registered(ws[o].event_id) /\ Quiescent) =>
            \A s \in Seats :
                SeatEvent(s) = ws[o].event_id => ws[o].view[s] = seat_status[s]

C22_ReleasePerSeat ==
    [][\A u \in Users :
        LET c == call[u]
            s == c.seat_ids[c.i]
        IN (c.op = "release" /\ StepOf(u)) =>
            /\ bookings' = bookings
            /\ c.pc = "get" =>
                   /\ UNCHANGED <<storeVars, lockVars>>
                   /\ call'[u].done_seats = c.done_seats
                   /\ IF lock_holder[s] = u
                      THEN call'[u].pc = "query" /\ call'[u].failed_seats = c.failed_seats
                      ELSE call'[u].failed_seats = Append(c.failed_seats, s)
            /\ c.pc = "query" => UNCHANGED <<storeVars, lockVars>>
            /\ c.pc = "delete" =>
                   /\ lock_holder'[s] = NoUser
                   /\ \A x \in Seats \ {s} :
                          lock_holder'[x] = lock_holder[x] /\ lock_ttl'[x] = lock_ttl[x]
                   /\ call'[u].done_seats = Append(c.done_seats, s)
                   /\ UNCHANGED storeVars
            /\ c.pc = "commit" =>
                   /\ UNCHANGED lockVars
                   /\ \A x \in Seats :
                          IF x \in Range(c.done_seats)
                          THEN seat_status'[x] = "available" /\ hold_expiry'[x] = None
                          ELSE seat_status'[x] = seat_status[x] /\ hold_expiry'[x] = hold_expiry[x]
            /\ c.pc = "broadcast" =>
                   /\ UNCHANGED <<storeVars, lockVars>>
                   /\ call'[u].res.success
                   /\ call'[u].failed_seats = c.failed_seats
                   /\ call'[u].done_seats = c.done_seats
                   /\ call'[u].published = Messages(c.done_seats, "available")
                   /\ \A x \in Range(c.done_seats) :
                          seat_status[x] = "available" /\ hold_expiry[x] = None
                          /\ lock_holder[x] = NoUser
    ]_vars

\* a release has returned with one seat released and the other one failed: the
\* released seat is available without lock, the failed one is still held under
\* the other principal's lock, and a booking made before stands
C22_Witness ==
    \E u, v \in Users, a, b \in Seats :
        /\ u # v /\ a # b
        /\ At(u, "release", "done")
        /\ call[u].done_seats = <<a>> /\ call[u].failed_seats = <<b>>
        /\ seat_status[a] = "available" /\ hold_expiry[a] = None /\ lock_holder[a] = NoUser
        /\ seat_status[b] = "held" /\ lock_holder[b] = v
        /\ \E k \in 1..Len(bookings) : bookings[k].status = "confirmed"

\* C23: cancel_booking fails when the booking does not exist, belongs to
\* another principal or is already cancelled: the call ends at once with an
\* error, and the bookings, the seat rows, the lock entries and the hub are
\* unchanged and nothing is broadcast.
C23_CancelRefused ==
    [][\A u \in Users :
        (IsIdle(u) /\ call'[u].op = "cancel") =>
            LET b == call'[u].booking_id IN
            (\/ b \notin 1..Len(bookings)
             \/ bookings[b].user_id # u
             \/ bookings[b].status = "cancelled") =>
                /\ call'[u].pc = "done" /\ ~call'[u].res.success
                /\ call'[u].res.code \in {400, 404}
                /\ call'[u].published = <<>> /\ call'[u].done_seats = <<>>
                /\ UNCHANGED <<storeVars, lockVars, hubVars>>
    ]_vars

\* a cancel of another principal's confirmed booking has been refused: the
\* booking is still confirmed and its seat still booked
C23_Witness ==
    \E u, v \in Users :
        /\ u # v
        /\ At(u, "cancel", "done") /\ call[u].res.code = 404
        /\ call[u].booking_id \in 1..Len(bookings)
        /\ bookings[call[u].booking_id].user_id = v
        /\ bookings[call[u].booking_id].status = "confirmed"
        /\ seat_status[bookings[call[u].booking_id].seat_id] = "booked"

\* C24: no request deletes a lock entry that another principal owns at the
\* moment of the deletion: every step of a request that removes a lock entry
\* (in the hold_multiple rollback, in confirm, in release) removes an entry
\* whose current owner is the calling principal.
C24_DeletesOwnLockOnly ==
    [][\A u \in Users :
        StepOf(u) =>
            \A s \in Seats :
                (lock_holder[s] # NoUser /\ lock_holder'[s] = NoUser) => lock_holder[s] = u
    ]_vars

\* C25: whenever a seat's committed status is held and its hold_expiry has not
\* yet passed (at least one tick is left), a live lock entry exists for the
\* seat.
C25_HeldHasLock ==
    \A s \in Seats : (seat_status[s] = "held" /\ hold_expiry[s] > 0) => LockExists(s)

\* C26: whenever no operation is in flight, a live lock entry exists only for
\* a seat whose committed status is held.
C26_LockOnlyOnHeld ==
    Quiescent => \A s \in Seats : LockExists(s) => seat_status[s] = "held"

\* C30: the hub holds no entry for an event without observers: when the last
\* observer of an event is removed, by unsubscribe or after a failed delivery,
\* the entry of the event is removed from the registry.
C30_NoEmptyEntry ==
    \A e \in DOMAIN active_connections : active_connections[e] # {}

\* C29: within one holdMultiple call and within one confirm call the seats are
\* worked on one by one in the order of the request's seat ids: a holdMultiple
\* call that passes its validation goes through the seats in the order of the
\* request and returns the held seats in that order; every step of a confirm
\* call works on the seat at the next position of the request, touches the
\* lock of no other seat and appends that seat to the confirmed or to the
\* failed list, and the response returns these lists.
C29_InCallerOrder ==
    [][\A u \in Users :
        /\ (IsIdle(u) /\ call'[u].op = "hold_multiple" /\ call'[u].pc = "setnx") =>
              \A ids \in SeatLists :
                  HoldMultipleStart(u, TheEvent, ids) => call'[u].seats = ids
        /\ (At(u, "hold_multiple", "broadcast") /\ StepOf(u)) =>
              call'[u].acquired_locks = call[u].seats
        /\ (call[u].op = "confirm" /\ call[u].pc \in {"get", "query", "delete"} /\ StepOf(u)) =>
              LET c == call[u]
                  s == c.seat_ids[c.i]
              IN /\ c.i = Len(c.done_seats) + Len(c.failed_seats) + 1
                 /\ call'[u].done_seats \in {c.done_seats, Append(c.done_seats, s)}
                 /\ call'[u].failed_seats \in {c.failed_seats, Append(c.failed_seats, s)}
                 /\ \A x \in Seats \ {s} : lock_holder'[x] = lock_holder[x]
        /\ (At(u, "confirm", "broadcast") /\ StepOf(u)) =>
              /\ call'[u].done_seats = call[u].done_seats
              /\ call'[u].failed_seats = call[u].failed_seats
      ]_vars

\* C27: a failed cycle of the background task does not end the task: after the
\* failure the task waits for its next cycle again, and a seat the failed cycle
\* left held, expired and without lock entry does not stay so: a later cycle
\* makes it available, unless a request changes the seat first.
C27_FailedCycleRetried ==
    /\ (reaper.pc = "failed") ~> (reaper.pc = "sleep")
    /\ \A s \in Seats :
           (reaper.pc = "failed" /\ Reclaimable(s)) ~>
               (seat_status[s] # "held" \/ hold_expiry[s] # Past)

\* a cycle has failed and has left an abandoned seat behind
C27_Witness ==
    /\ reaper.pc = "failed"
    /\ \E s \in Seats : Reclaimable(s)

\* C28: a call whose commit fails is answered as failed and leaves no partial
\* effect: no seat or booking row changes, no lock that the call deleted
\* belongs to a seat that stays held, and no lock that the call set stays on a
\* seat that is not held.
C28_FailedCommitNoEffect ==
    [][\A u \in Users :
        (call[u].pc = "commit" /\ call'[u].pc = "done" /\ call'[u].res.code = 500) =>
            /\ ~call'[u].res.success
            /\ UNCHANGED storeVars
            /\ call[u].op \in {"confirm", "release"} =>
                   \A s \in Range(call[u].done_seats) :
                       seat_status'[s] = "held" => lock_holder'[s] # NoUser
            /\ \A s \in call[u].fresh :
                   seat_status'[s] # "held" => lock_holder'[s] = NoUser
      ]_vars

\* C34: for every confirm call, also one that names a seat more than once, the
\* commit adds at most one booking per seat, and the confirmed list and the
\* failed list of the response have no seat in common.
C34_ConfirmListsDisjoint ==
    [][\A u \in Users :
        /\ (At(u, "confirm", "commit") /\ StepOf(u)) =>
              \A a, b \in (Len(bookings) + 1)..Len(bookings') :
                  bookings'[a].seat_id = bookings'[b].seat_id => a = b
        /\ (At(u, "confirm", "broadcast") /\ StepOf(u)) =>
              Range(call'[u].done_seats) \cap Range(call'[u].failed_seats) = {}
      ]_vars

\* C31: get_my_holds changes no seat, booking, lock entry or registry entry;
\* it scans exactly the held seats of the event; it skips a seat only if the
\* caller does not own its lock entry; every seat it lists is held and has, at
\* that moment, a live lock entry of the caller, and is listed with the
\* remaining TTL of that entry; the expiry it reports is the earliest of the
\* listed seats' expiries (none if it lists no seat).
C31_MyHoldsExact ==
    [][\A u \in Users :
        LET c == call[u]
            d == call'[u]
            n == Len(c.my_held_seats)
        IN
        /\ (IsIdle(u) /\ d.op = "my_holds") =>
              /\ UNCHANGED <<storeVars, lockVars, hubVars>>
              /\ IF d.pc = "done"
                 THEN HeldSeatsOf(d.event_id) = {} /\ d.my_held_seats = <<>>
                      /\ d.hold_expires_at = None
                 ELSE Range(d.seats) = HeldSeatsOf(d.event_id)
                      /\ Len(d.seats) = Cardinality(HeldSeatsOf(d.event_id))
        /\ (c.op = "my_holds" /\ c.pc \in {"get", "ttl"} /\ (d.pc # c.pc \/ d.i # c.i)) =>
              LET s == c.seats[c.i] IN
              /\ UNCHANGED <<storeVars, lockVars, hubVars>>
              /\ (c.pc = "get" /\ d.pc # "ttl") =>
                     lock_holder[s] # u /\ d.my_held_seats = c.my_held_seats
              /\ (c.pc = "get") => d.hold_expires_at = c.hold_expires_at
              /\ (c.pc = "ttl") =>
                     /\ Len(d.my_held_seats) = n + 1
                     /\ d.my_held_seats[n + 1].seat_id = s
                     /\ seat_status[s] = "held"
                     /\ lock_holder[s] = u
                     /\ d.my_held_seats[n + 1].expires_in_seconds = lock_ttl[s] * TickSeconds
                     /\ d.my_held_seats[n + 1].expires_in_seconds > 0
                     /\ d.hold_expires_at =
                            IF c.hold_expires_at # None /\ c.hold_expires_at <= lock_ttl[s]
                            THEN c.hold_expires_at ELSE lock_ttl[s]
      ]_vars

\* C32: a seat_update is published only after the change it reports has been
\* committed: whenever a publish shows an observer a new status for a seat,
\* the seat row has that status at that moment.
C32_PublishAfterCommit ==
    [][\A o \in Observers, s \in Seats :
        (ws[o].pc = "open" /\ ws'[o].pc = "open" /\ ws'[o].view[s] # ws[o].view[s]) =>
            ws'[o].view[s] = seat_status[s]
      ]_vars

\* C33: a publish that is suspended in the delivery to one observer, who stays
\* subscribed, while other observers subscribe to the event or leave it, still
\* comes to every remaining observer of the event, and the request that issued
\* it completes normally.
C33_PublishSurvivesChange ==
    [][\A u \in Users :
        (/\ At(u, "hold", "sending")
         /\ call[u].connection \in Registered(call[u].event_id)
         /\ call'[u].pc = "done") =>
            /\ call'[u].res.code = 200
            /\ call'[u].res.success
            /\ call[u].rest \cap Registered(call[u].event_id) = {}
      ]_vars

====
